---- MODULE Spec2Model ----
(***************************************************************************)
(* Model of oasis_py.py: the TwicketsMonitor object (known_tickets,        *)
(* is_running, subscribers, the two JSON files), the monitor_loop thread   *)
(* and the control-surface handlers of main(), each of which runs in the   *)
(* thread of the browser session that triggered it.                        *)
(*                                                                         *)
(* A listing is modelled by its id (the md5 of its details text); a page   *)
(* is the set of ids it lists.  An email address is a sequence of          *)
(* one-character strings, so that lower() and strip() are computed.        *)
(* A statement of the source is one step; the steps of different threads   *)
(* interleave freely (no lock is taken anywhere in the source).            *)
(***************************************************************************)
EXTENDS Integers, Sequences, FiniteSets, TLC

(* ---------------------------------------------------------------- bounds *)
\* loop cycles (calls of check_tickets by monitor_loop) and control-surface
\* operations (button presses, form submits) explored, per specification
MaxChecks == 3
MaxOps == 3
MaxSubscriberOps == 3
MaxAllChecks == 2
MaxAllOps == 2
\* check_interval, in one-second slices (the configured value; default 30)
CheckInterval == 1
\* first_dibs_delay in seconds (the configured value; default 90)
FirstDibsDelay == 1

\* listing ids that the monitored page can show
Ids == {"x", "y"}
\* threads that run the handlers of the page: a handler takes the first one
\* that is free, so "s2" runs a handler only while "s1" is running one
Sessions == {"s1", "s2"}
first_session == "s1"
\* thread objects that start_monitoring can create
Loops == {"t1", "t2"}
Threads == Loops \cup Sessions

\* raw addresses typed into the forms
RawFoo == <<"a", "@", "b">>
RawFooUpper == <<"A", "@", "B", " ">>
RawAdmin == <<"c", "@", "d">>
RawEmails == {RawFoo, RawFooUpper, RawAdmin}
\* a non-empty text with no "@", which line 588 lets through
RawNoAt == <<"a", "b">>
\* what st.text_input of the forms can hold
FormInputs == RawEmails \cup {RawNoAt}
\* the [admin] email of the secrets file, when configured
AdminAddress == <<"c", "@", "d">>
NoAdmin == <<>>

(* --------------------------------------------------------------- strings *)
\* str.lower() on one character
LowerChar(c) ==
    CASE c = "A" -> "a"
      [] c = "B" -> "b"
      [] c = "C" -> "c"
      [] c = "D" -> "d"
      [] OTHER -> c

\* str.lower()
RECURSIVE lower(_)
lower(s) == IF s = <<>> THEN <<>> ELSE <<LowerChar(Head(s))>> \o lower(Tail(s))

\* str.strip(): leading and trailing whitespace removed
RECURSIVE lstrip(_)
lstrip(s) == IF s # <<>> /\ Head(s) = " " THEN lstrip(Tail(s)) ELSE s

RECURSIVE rstrip(_)
rstrip(s) ==
    IF s # <<>> /\ s[Len(s)] = " " THEN rstrip(SubSeq(s, 1, Len(s) - 1)) ELSE s

strip(s) == rstrip(lstrip(s))

\* a normalization that trims and forgets to lower-case
normalize_keeps_case(email) == strip(email)

\* email.lower().strip(), lines 72 and 163
normalize(email) == strip(lower(email))

\* [s for s in subscribers if s['email'] != email], line 165
RECURSIVE without(_, _)
without(list, email) ==
    IF list = <<>> THEN <<>>
    ELSE IF Head(list) = email THEN without(Tail(list), email)
    ELSE <<Head(list)>> \o without(Tail(list), email)

\* the emails of a list of records, as a set
Emails(list) == {list[i] : i \in 1..Len(list)}

(* ----------------------------------------------------------------- state *)
VARIABLES
    known_tickets,   \* self.known_tickets: set of listing ids
    is_running,      \* self.is_running
    subscribers,     \* self.subscribers: list of records, by their email
    users_file,      \* content of subscribers.json
    status_file,     \* content of monitor_status.json
    monitor_thread,  \* the global thread handle: "None" or a thread
    admin_email,     \* self.admin_email (NoAdmin when not configured)
    pc,              \* statement each thread is at
    ct,              \* locals of each thread's check_tickets call
    sn,              \* locals of each thread's send_email_notifications call
    lv,              \* locals of each monitor_loop thread
    ui,              \* locals of each session's handler
    ops,             \* control-surface operations begun so far
    checks,          \* loop cycles begun so far
    limit,           \* the operations and cycles explored (never changes)
    stopped,         \* history: stop_monitoring ran after the last successful start
    seen             \* history: each id in the last two successful loop checks

vars == <<known_tickets, is_running, subscribers, users_file, status_file,
          monitor_thread, admin_email, pc, ct, sn, lv, ui, ops, checks, limit,
          stopped, seen>>

\* locals of a call that is not in progress
NoCheck == [cur |-> {}, new |-> {}, ret |-> {}, branch |-> "none"]
NoSend == [alias |-> FALSE, list |-> <<>>, idx |-> 0, successful_sends |-> 0,
           failed_sends |-> 0, attempts |-> <<>>, returned |-> "none"]
NoLoop == [total_checks |-> 0, tickets_found |-> 0, first_dibs_enabled |-> FALSE,
           slept |-> 0, waited |-> 0, admin_done |-> FALSE]
NoHandler == [op |-> "none", raw |-> <<>>, email |-> <<>>, original_count |-> 0,
              kept |-> <<>>, result |-> "none", welcome_sent |-> FALSE,
              before |-> <<>>]

\* the default of get_status when the file is absent, lines 187 and 190
DefaultStatus == [present |-> FALSE, is_running |-> FALSE, total_checks |-> 0,
                  tickets_found |-> 0, subscriber_count |-> 0]

\* subscribers.json as found at construction
InitFiles == {<<>>, <<normalize(RawFoo), AdminAddress>>}

\* threading.Thread.is_alive()
is_alive(t) == pc[t] \notin {"unborn", "dead"}

\* the state after TwicketsMonitor.__init__ (lines 28-49) and lines 400-401
Constructed ==
    /\ known_tickets = {}
    /\ is_running = FALSE
    /\ users_file \in InitFiles
    /\ subscribers = users_file
    /\ status_file = DefaultStatus
    /\ monitor_thread = "None"
    /\ admin_email \in {NoAdmin, AdminAddress}
    /\ pc = [p \in Threads |-> IF p \in Loops THEN "unborn" ELSE "idle"]
    /\ ct = [p \in Threads |-> NoCheck]
    /\ sn = [p \in Threads |-> NoSend]
    /\ lv = [t \in Loops |-> NoLoop]
    /\ ui = [s \in Sessions |-> NoHandler]
    /\ ops = 0
    /\ checks = 0
    /\ stopped = FALSE
    /\ seen = [x \in Ids |-> "no"]

Init ==
    /\ Constructed
    /\ limit = [ops |-> MaxAllOps, checks |-> MaxAllChecks]

InitMonitor ==
    /\ Constructed
    /\ limit = [ops |-> MaxOps, checks |-> MaxChecks]

InitSubscribers ==
    /\ Constructed
    /\ limit = [ops |-> MaxSubscriberOps, checks |-> 0]

InitStartStop ==
    /\ Constructed
    /\ limit = [ops |-> MaxOps, checks |-> MaxAllChecks]

(* --------------------------------------------------------- check_tickets *)
\* current_ticket_ids - self.known_tickets, line 228
new_ticket_ids(current, known) == current \ known

\* the known set written at lines 229-236
merged_known(known, new, current) ==
    IF new # {} THEN known \cup new ELSE known \cap current

\* where a thread continues when its check_tickets call returns `ret`
after_check(p, ret) ==
    IF p \in Loops THEN "L366"
    ELSE IF ui[p].op = "add" THEN (IF ret # {} THEN "add_welcome" ELSE "idle")
    ELSE "ib_len"

\* history of the loop's checks: "listed" when the last successful check listed
\* the id, "missed" when it did not and the one before did, "no" otherwise
observed(p, branch, current) ==
    IF p \notin Loops THEN seen
    ELSE IF branch = "error" THEN [x \in Ids |-> "no"]
    ELSE [x \in Ids |-> IF x \in current THEN "listed"
                        ELSE IF seen[x] = "listed" THEN "missed" ELSE "no"]

\* return from check_tickets
check_return(p, ret, branch) ==
    /\ seen' = observed(p, branch, ct[p].cur)
    /\ ct' = [ct EXCEPT ![p] = IF after_check(p, ret) = "idle" THEN NoCheck
                                ELSE [NoCheck EXCEPT !.ret = ret, !.branch = branch]]
    /\ pc' = [pc EXCEPT ![p] = after_check(p, ret)]
    /\ IF p \in Sessions /\ after_check(p, ret) = "idle"
       THEN ui' = [ui EXCEPT ![p] = [NoHandler EXCEPT !.op = ui[p].op,
                                        !.raw = ui[p].raw, !.result = "True"]]
       ELSE ui' = ui

\* a check that keeps the known set on a page without listings
check_tickets_fetch_keeps_known(p) ==
    /\ pc[p] = "ct_fetch"
    /\ \/ /\ check_return(p, {}, "error")
          /\ UNCHANGED known_tickets
       \/ /\ check_return(p, {}, "nocontainer")
          /\ UNCHANGED known_tickets
       \/ /\ check_return(p, {}, "empty")
          /\ UNCHANGED known_tickets
       \/ \E current \in (SUBSET Ids) \ {{}} :
          /\ ct' = [ct EXCEPT ![p].cur = current]
          /\ pc' = [pc EXCEPT ![p] = "ct_diff"]
          /\ UNCHANGED <<known_tickets, ui, seen>>
    /\ UNCHANGED <<is_running, subscribers, users_file, status_file,
                   monitor_thread, admin_email, sn, lv, ops, checks, stopped, limit>>

\* lines 194-223: the request and the parse of the page
check_tickets_fetch(p) ==
    /\ pc[p] = "ct_fetch"
    /\ \/ \* RequestException or any other exception, lines 237-242
          /\ check_return(p, {}, "error")
          /\ UNCHANGED known_tickets
       \/ \* a page without the element of id "list", lines 199 and 201-203
          /\ known_tickets' = {}
          /\ check_return(p, {}, "nocontainer")
       \/ \* "no listings" shown, or no listing that can be parsed
          /\ known_tickets' = {}
          /\ check_return(p, {}, "empty")
       \/ \E current \in (SUBSET Ids) \ {{}} :
          /\ ct' = [ct EXCEPT ![p].cur = current]
          /\ pc' = [pc EXCEPT ![p] = "ct_diff"]
          /\ UNCHANGED <<known_tickets, ui, seen>>
    /\ UNCHANGED <<is_running, subscribers, users_file, status_file,
                   monitor_thread, admin_email, sn, lv, ops, checks, stopped, limit>>

\* lines 224-228: baseline, or the difference with the known set
check_tickets_diff(p) ==
    /\ pc[p] = "ct_diff"
    /\ \/ /\ known_tickets = {}
          /\ known_tickets' = ct[p].cur
          /\ check_return(p, {}, "baseline")
       \/ /\ known_tickets # {}
          /\ ct' = [ct EXCEPT ![p].new = new_ticket_ids(ct[p].cur, known_tickets)]
          /\ pc' = [pc EXCEPT ![p] = "ct_merge"]
          /\ UNCHANGED <<known_tickets, ui, seen>>
    /\ UNCHANGED <<is_running, subscribers, users_file, status_file,
                   monitor_thread, admin_email, sn, lv, ops, checks, stopped, limit>>

\* lines 229-236: the known set is updated and the new listings returned
check_tickets_merge(p) ==
    /\ pc[p] = "ct_merge"
    /\ known_tickets' = merged_known(known_tickets, ct[p].new, ct[p].cur)
    /\ check_return(p, ct[p].new, IF ct[p].new # {} THEN "new" ELSE "same")
    /\ UNCHANGED <<is_running, subscribers, users_file, status_file,
                   monitor_thread, admin_email, sn, lv, ops, checks, stopped, limit>>

(* ----------------------------------------------- send_email_notifications *)
\* [s for s in self.subscribers if s['email'].lower() != admin_email_lower], line 291
RECURSIVE not_admin(_, _)
not_admin(list, admin) ==
    IF list = <<>> THEN <<>>
    ELSE IF lower(Head(list)) = lower(admin) THEN not_admin(Tail(list), admin)
    ELSE <<Head(list)>> \o not_admin(Tail(list), admin)

\* a broadcast that never leaves the admin out
recipients_of_everyone(list, exclude_admin, admin) ==
    [alias |-> TRUE, list |-> list]

\* lines 288-292: the recipients, and whether they are the subscribers list itself
recipients_of(list, exclude_admin, admin) ==
    IF exclude_admin /\ admin # NoAdmin
    THEN [alias |-> FALSE, list |-> not_admin(list, admin)]
    ELSE [alias |-> TRUE, list |-> list]

\* where a thread continues when its send_email_notifications call returns
after_send(p) == IF p \in Loops THEN "L379" ELSE "idle"

\* a loop body that gives up on the remaining recipients when a send fails
counted_abort(call, sent) ==
    [call EXCEPT !.idx = IF sent THEN @ + 1 ELSE Len(call.list),
                 !.attempts = Append(@, call.list[call.idx + 1]),
                 !.successful_sends = IF sent THEN @ + 1 ELSE @,
                 !.failed_sends = IF sent THEN @ ELSE @ + 1]

\* the counters after one pass of the loop body, lines 302-350
counted(call, sent) ==
    [call EXCEPT !.idx = @ + 1,
                 !.attempts = Append(@, call.list[call.idx + 1]),
                 !.successful_sends = IF sent THEN @ + 1 ELSE @,
                 !.failed_sends = IF sent THEN @ ELSE @ + 1]

\* lines 284-299: nobody to notify (returns None), or the recipients are chosen
send_email_notifications_begin(p, exclude_admin) ==
    LET r == recipients_of(subscribers, exclude_admin, admin_email) IN
    IF subscribers = <<>> \/ r.list = <<>>
    THEN /\ sn' = [sn EXCEPT ![p] = [NoSend EXCEPT !.returned = "None"]]
         /\ pc' = [pc EXCEPT ![p] = after_send(p)]
    ELSE /\ sn' = [sn EXCEPT ![p] = [NoSend EXCEPT !.alias = r.alias, !.list = r.list]]
         /\ pc' = [pc EXCEPT ![p] = "sen_loop"]

\* lines 301-353: one send per recipient; the counts are returned at the end
send_email_notifications_loop(p) ==
    /\ pc[p] = "sen_loop"
    /\ \/ /\ sn[p].idx < Len(sn[p].list)
          /\ \E sent \in BOOLEAN : sn' = [sn EXCEPT ![p] = counted(sn[p], sent)]
          /\ UNCHANGED <<pc, ui, ct>>
       \/ /\ sn[p].idx >= Len(sn[p].list)
          /\ sn' = [sn EXCEPT ![p].returned = "counts", ![p].alias = FALSE]
          /\ pc' = [pc EXCEPT ![p] = after_send(p)]
          /\ ct' = [ct EXCEPT ![p] = IF p \in Loops THEN @ ELSE NoCheck]
          /\ ui' = IF p \in Sessions
                   THEN [ui EXCEPT ![p] = [NoHandler EXCEPT !.op = ui[p].op,
                                                            !.result = "None"]]
                   ELSE ui
    /\ UNCHANGED <<known_tickets, is_running, subscribers, users_file, status_file,
                   monitor_thread, admin_email, lv, ops, checks, stopped, limit, seen>>

(* ---------------------------------------------------------- monitor_loop *)
\* lines 357-359: the counters resume from the persisted status
monitor_loop_get_status(t) ==
    /\ pc[t] = "L357"
    /\ lv' = [lv EXCEPT ![t].total_checks = status_file.total_checks,
                        ![t].tickets_found = status_file.tickets_found]
    /\ pc' = [pc EXCEPT ![t] = "L360"]
    /\ UNCHANGED <<known_tickets, is_running, subscribers, users_file, status_file,
                   monitor_thread, admin_email, ct, sn, ui, ops, checks, stopped, limit, seen>>

\* line 360
monitor_loop_set_running(t) ==
    /\ pc[t] = "L360"
    /\ is_running' = TRUE
    /\ pc' = [pc EXCEPT ![t] = "L362"]
    /\ UNCHANGED <<known_tickets, subscribers, users_file, status_file,
                   monitor_thread, admin_email, ct, sn, lv, ui, ops, checks, stopped, limit, seen>>

\* line 362: the loop condition; a cycle begins with check_tickets (line 365)
monitor_loop_while(t) ==
    /\ pc[t] = "L362"
    /\ \/ /\ is_running
          /\ checks < limit.checks
          /\ checks' = checks + 1
          /\ pc' = [pc EXCEPT ![t] = "ct_fetch"]
       \/ /\ ~is_running
          /\ pc' = [pc EXCEPT ![t] = "L392"]
          /\ UNCHANGED checks
    /\ ct' = [ct EXCEPT ![t] = NoCheck]
    /\ sn' = [sn EXCEPT ![t] = NoSend]
    /\ UNCHANGED <<known_tickets, is_running, subscribers, users_file, status_file,
                   monitor_thread, admin_email, lv, ui, ops, stopped, limit, seen>>

\* a loop that notifies after every check, new listings or not
after_count_always(new_tickets, first_dibs_enabled, admin) ==
    IF first_dibs_enabled /\ admin # NoAdmin THEN "fd_admin" ELSE "sen_begin"

\* the statement after the counters, lines 367-378
after_count(new_tickets, first_dibs_enabled, admin) ==
    IF new_tickets = {} THEN "L379"
    ELSE IF first_dibs_enabled /\ admin # NoAdmin THEN "fd_admin"
    ELSE "sen_begin"

\* a loop that counts only the checks that returned listings
monitor_loop_count_finds(t) ==
    /\ pc[t] = "L366"
    /\ lv' = [lv EXCEPT ![t].total_checks = IF ct[t].ret # {} THEN @ + 1 ELSE @,
                        ![t].tickets_found = @ + Cardinality(ct[t].ret),
                        ![t].admin_done = FALSE,
                        ![t].waited = 0]
    /\ pc' = [pc EXCEPT ![t] =
                after_count(ct[t].ret, lv[t].first_dibs_enabled, admin_email)]
    /\ UNCHANGED <<known_tickets, is_running, subscribers, users_file, status_file,
                   monitor_thread, admin_email, ct, sn, ui, ops, checks, stopped, limit, seen>>

\* lines 366-370: the counters, and the choice of the notification path
monitor_loop_count(t) ==
    /\ pc[t] = "L366"
    /\ lv' = [lv EXCEPT ![t].total_checks = @ + 1,
                        ![t].tickets_found = @ + Cardinality(ct[t].ret),
                        ![t].admin_done = FALSE,
                        ![t].waited = 0]
    /\ pc' = [pc EXCEPT ![t] =
                after_count(ct[t].ret, lv[t].first_dibs_enabled, admin_email)]
    /\ UNCHANGED <<known_tickets, is_running, subscribers, users_file, status_file,
                   monitor_thread, admin_email, ct, sn, ui, ops, checks, stopped, limit, seen>>

\* line 371 (lines 244-280): the send to the admin, whose failure is only logged
send_admin_first_dibs_notification(t) ==
    /\ pc[t] = "fd_admin"
    /\ lv' = [lv EXCEPT ![t].admin_done = TRUE]
    /\ pc' = [pc EXCEPT ![t] = "fd_sleep"]
    /\ UNCHANGED <<known_tickets, is_running, subscribers, users_file, status_file,
                   monitor_thread, admin_email, ct, sn, ui, ops, checks, stopped, limit, seen>>

\* a loop that does not wait before the broadcast
first_dibs_no_sleep(t) ==
    /\ pc[t] = "fd_sleep"
    /\ pc' = [pc EXCEPT ![t] = "sen_excl"]
    /\ UNCHANGED <<known_tickets, is_running, subscribers, users_file, status_file,
                   monitor_thread, admin_email, ct, sn, lv, ui, ops, checks, stopped,
                   limit, seen>>

\* line 373: time.sleep(self.first_dibs_delay), one second at a time
first_dibs_sleep(t) ==
    /\ pc[t] = "fd_sleep"
    /\ \/ /\ lv[t].waited < FirstDibsDelay
          /\ lv' = [lv EXCEPT ![t].waited = @ + 1]
          /\ UNCHANGED pc
       \/ /\ lv[t].waited >= FirstDibsDelay
          /\ pc' = [pc EXCEPT ![t] = "sen_excl"]
          /\ UNCHANGED lv
    /\ UNCHANGED <<known_tickets, is_running, subscribers, users_file, status_file,
                   monitor_thread, admin_email, ct, sn, ui, ops, checks, stopped, limit, seen>>

\* lines 375 and 377: the broadcast, without or with the admin
monitor_loop_notify(t) ==
    /\ \/ /\ pc[t] = "sen_excl"
          /\ send_email_notifications_begin(t, TRUE)
       \/ /\ pc[t] = "sen_begin"
          /\ send_email_notifications_begin(t, FALSE)
    /\ UNCHANGED <<known_tickets, is_running, subscribers, users_file, status_file,
                   monitor_thread, admin_email, ct, lv, ui, ops, checks, stopped, limit, seen>>

\* the record written by update_status at lines 379-385 and 392-398
status_record(running, locals, list) ==
    [present |-> TRUE, is_running |-> running,
     total_checks |-> locals.total_checks, tickets_found |-> locals.tickets_found,
     subscriber_count |-> Len(list)]

\* lines 379-385
monitor_loop_update_status(t) ==
    /\ pc[t] = "L379"
    /\ status_file' = status_record(TRUE, lv[t], subscribers)
    /\ lv' = [lv EXCEPT ![t].slept = 0, ![t].waited = 0, ![t].admin_done = FALSE]
    /\ ct' = [ct EXCEPT ![t] = NoCheck]
    /\ sn' = [sn EXCEPT ![t] = NoSend]
    /\ pc' = [pc EXCEPT ![t] = "L386"]
    /\ UNCHANGED <<known_tickets, is_running, subscribers, users_file,
                   monitor_thread, admin_email, ui, ops, checks, stopped, limit, seen>>

\* lines 386-388: the interval, one second at a time, left early on a stop
monitor_loop_sleep(t) ==
    /\ pc[t] = "L386"
    /\ \/ /\ lv[t].slept < CheckInterval
          /\ is_running
          /\ lv' = [lv EXCEPT ![t].slept = @ + 1]
          /\ UNCHANGED pc
       \/ /\ lv[t].slept < CheckInterval
          /\ ~is_running
          /\ lv' = [lv EXCEPT ![t].slept = 0]
          /\ pc' = [pc EXCEPT ![t] = "L362"]
       \/ /\ lv[t].slept >= CheckInterval
          /\ lv' = [lv EXCEPT ![t].slept = 0]
          /\ pc' = [pc EXCEPT ![t] = "L362"]
    /\ UNCHANGED <<known_tickets, is_running, subscribers, users_file, status_file,
                   monitor_thread, admin_email, ct, sn, ui, ops, checks, stopped, limit, seen>>

\* the statements of the cycle body that are inside no try block of a function
\* they call: lines 366-370, 374, 284-296 (either broadcast) and 379-385
RaisingStatements == {"L366", "fd_sleep", "sen_excl", "sen_begin", "L379"}

\* an exception that leaves the thread with no final status
monitor_loop_except_propagates(t) ==
    /\ pc[t] \in RaisingStatements
    /\ pc' = [pc EXCEPT ![t] = "dead"]
    /\ lv' = [lv EXCEPT ![t] = NoLoop]
    /\ ct' = [ct EXCEPT ![t] = NoCheck]
    /\ sn' = [sn EXCEPT ![t] = NoSend]
    /\ UNCHANGED <<known_tickets, is_running, subscribers, users_file, status_file,
                   monitor_thread, admin_email, ui, ops, checks, stopped, limit, seen>>

\* lines 389-390: an exception raised in the cycle body is logged; the locals of
\* the cycle are gone, the counters stay for the finally clause
monitor_loop_except(t) ==
    /\ pc[t] \in RaisingStatements
    /\ pc' = [pc EXCEPT ![t] = "L392"]
    /\ lv' = [lv EXCEPT ![t].slept = 0, ![t].waited = 0, ![t].admin_done = FALSE]
    /\ ct' = [ct EXCEPT ![t] = NoCheck]
    /\ sn' = [sn EXCEPT ![t] = NoSend]
    /\ UNCHANGED <<known_tickets, is_running, subscribers, users_file, status_file,
                   monitor_thread, admin_email, ui, ops, checks, stopped, limit, seen>>

\* lines 391-398: the final status; the thread ends
monitor_loop_finally(t) ==
    /\ pc[t] = "L392"
    /\ status_file' = status_record(FALSE, lv[t], subscribers)
    /\ pc' = [pc EXCEPT ![t] = "dead"]
    /\ lv' = [lv EXCEPT ![t] = NoLoop]
    /\ UNCHANGED <<known_tickets, is_running, subscribers, users_file,
                   monitor_thread, admin_email, ct, sn, ui, ops, checks, stopped, limit, seen>>

(* ------------------------------------------- start_monitoring and stop  *)
\* a handler returns `result` to the page
handler_return(s, result) ==
    ui' = [ui EXCEPT ![s] = [NoHandler EXCEPT !.op = ui[s].op, !.raw = ui[s].raw,
                                              !.result = result]]

\* a handler begins: one more operation of the control surface
handler_begin(s) ==
    /\ pc[s] = "idle"
    /\ s = first_session \/ pc[first_session] # "idle"
    /\ ops < limit.ops
    /\ ops' = ops + 1

\* the thread object that a start creates
new_thread == CHOOSE t \in Loops : ~is_alive(t)

\* line 429: monitor_thread is None or not monitor_thread.is_alive()
may_start(handle) == IF handle = "None" THEN TRUE ELSE ~is_alive(handle)

\* lines 429 and 441: the single-flight test of the "Start Monitoring" button
start_monitoring_check(s) ==
    /\ handler_begin(s)
    /\ \/ /\ may_start(monitor_thread)
          /\ pc' = [pc EXCEPT ![s] = "st_spawn"]
          /\ ui' = [ui EXCEPT ![s] = [NoHandler EXCEPT !.op = "start"]]
       \/ /\ ~may_start(monitor_thread)
          /\ ui' = [ui EXCEPT ![s] = [NoHandler EXCEPT !.op = "start",
                                                       !.result = "False"]]
          /\ UNCHANGED pc
    /\ UNCHANGED <<known_tickets, is_running, subscribers, users_file, status_file,
                   monitor_thread, admin_email, ct, sn, lv, checks, stopped, limit, seen>>

\* lines 430-440: the thread is created, stored in the global and started
start_monitoring_spawn(s) ==
    /\ pc[s] = "st_spawn"
    /\ \E t \in Loops : ~is_alive(t)
    /\ \E enabled \in (IF admin_email # NoAdmin THEN BOOLEAN ELSE {FALSE}) :
          lv' = [lv EXCEPT ![new_thread] =
                    [NoLoop EXCEPT !.first_dibs_enabled = enabled]]
    /\ monitor_thread' = new_thread
    /\ pc' = [pc EXCEPT ![new_thread] = "L357", ![s] = "idle"]
    /\ ct' = [ct EXCEPT ![new_thread] = NoCheck]
    /\ sn' = [sn EXCEPT ![new_thread] = NoSend]
    /\ handler_return(s, "True")
    /\ stopped' = FALSE
    /\ UNCHANGED <<known_tickets, is_running, subscribers, users_file, status_file,
                   admin_email, ops, checks, limit, seen>>

\* lines 443-447
stop_monitoring(s) ==
    /\ handler_begin(s)
    /\ is_running' = FALSE
    /\ stopped' = TRUE
    /\ ui' = [ui EXCEPT ![s] = [NoHandler EXCEPT !.op = "stop", !.result = "None"]]
    /\ UNCHANGED <<known_tickets, subscribers, users_file, status_file,
                   monitor_thread, admin_email, pc, ct, sn, lv, checks, limit, seen>>

(* ------------------------------------------------------- add_subscriber *)
\* lines 73-75: is the address in the list
already_subscribed(list, email) == email \in Emails(list)

\* self.subscribers.append(...): every iteration over that list object sees it
appended_to(calls, email) ==
    [p \in Threads |-> IF calls[p].alias
                       THEN [calls[p] EXCEPT !.list = Append(@, email)]
                       ELSE calls[p]]

\* self.subscribers = [...]: iterations in progress keep the old list object
detached(calls) == [p \in Threads |-> [calls[p] EXCEPT !.alias = FALSE]]

\* line 589: the subscription form is submitted with an address
subscribe(s, raw) ==
    /\ handler_begin(s)
    /\ ui' = [ui EXCEPT ![s] = [NoHandler EXCEPT !.op = "add", !.raw = raw]]
    /\ pc' = [pc EXCEPT ![s] = "add_scan"]
    /\ UNCHANGED <<known_tickets, is_running, subscribers, users_file, status_file,
                   monitor_thread, admin_email, ct, sn, lv, checks, stopped, limit, seen>>

\* lines 72-75: the address is normalized and looked up
add_subscriber_scan(s) ==
    /\ pc[s] = "add_scan"
    /\ \/ /\ already_subscribed(subscribers, normalize(ui[s].raw))
          /\ handler_return(s, "False")
          /\ pc' = [pc EXCEPT ![s] = "idle"]
       \/ /\ ~already_subscribed(subscribers, normalize(ui[s].raw))
          /\ ui' = [ui EXCEPT ![s].email = normalize(ui[s].raw)]
          /\ pc' = [pc EXCEPT ![s] = "add_append"]
    /\ UNCHANGED <<known_tickets, is_running, subscribers, users_file, status_file,
                   monitor_thread, admin_email, ct, sn, lv, ops, checks, stopped,
                   limit, seen>>

\* lines 77-81
add_subscriber_append(s) ==
    /\ pc[s] = "add_append"
    /\ subscribers' = Append(subscribers, ui[s].email)
    /\ sn' = appended_to(sn, ui[s].email)
    /\ pc' = [pc EXCEPT ![s] = "add_save"]
    /\ UNCHANGED <<known_tickets, is_running, users_file, status_file,
                   monitor_thread, admin_email, ct, lv, ui, ops, checks, stopped, limit, seen>>

\* line 82, then line 84: the check for the new subscriber begins (line 92)
add_subscriber_save(s) ==
    /\ pc[s] = "add_save"
    /\ users_file' = subscribers
    /\ pc' = [pc EXCEPT ![s] = "ct_fetch"]
    /\ UNCHANGED <<known_tickets, is_running, subscribers, status_file,
                   monitor_thread, admin_email, ct, sn, lv, ui, ops, checks, stopped, limit, seen>>

\* lines 93-95 (lines 101-159): the message listing the tickets just returned
send_welcome_email_with_current_tickets(s) ==
    /\ pc[s] = "add_welcome"
    /\ ui' = [ui EXCEPT ![s] = [NoHandler EXCEPT !.op = ui[s].op, !.raw = ui[s].raw,
                                                 !.result = "True",
                                                 !.welcome_sent = TRUE]]
    /\ ct' = [ct EXCEPT ![s] = NoCheck]
    /\ pc' = [pc EXCEPT ![s] = "idle"]
    /\ UNCHANGED <<known_tickets, is_running, subscribers, users_file, status_file,
                   monitor_thread, admin_email, sn, lv, ops, checks, stopped, limit, seen>>

(* ---------------------------------------------------- remove_subscriber *)
\* lines 574 and 600: an address is given to remove
unsubscribe(s, raw) ==
    /\ handler_begin(s)
    /\ ui' = [ui EXCEPT ![s] = [NoHandler EXCEPT !.op = "remove", !.raw = raw]]
    /\ pc' = [pc EXCEPT ![s] = "rm_count"]
    /\ UNCHANGED <<known_tickets, is_running, subscribers, users_file, status_file,
                   monitor_thread, admin_email, ct, sn, lv, checks, stopped, limit, seen>>

\* lines 163-164
remove_subscriber_count(s) ==
    /\ pc[s] = "rm_count"
    /\ ui' = [ui EXCEPT ![s].email = normalize(ui[s].raw),
                        ![s].original_count = Len(subscribers),
                        ![s].before = subscribers]
    /\ pc' = [pc EXCEPT ![s] = "rm_filter"]
    /\ UNCHANGED <<known_tickets, is_running, subscribers, users_file, status_file,
                   monitor_thread, admin_email, ct, sn, lv, ops, checks, stopped,
                   limit, seen>>

\* line 165, right-hand side
remove_subscriber_filter(s) ==
    /\ pc[s] = "rm_filter"
    /\ ui' = [ui EXCEPT ![s].kept = without(subscribers, ui[s].email)]
    /\ pc' = [pc EXCEPT ![s] = "rm_assign"]
    /\ UNCHANGED <<known_tickets, is_running, subscribers, users_file, status_file,
                   monitor_thread, admin_email, ct, sn, lv, ops, checks, stopped, limit, seen>>

\* line 165, the assignment
remove_subscriber_assign(s) ==
    /\ pc[s] = "rm_assign"
    /\ subscribers' = ui[s].kept
    /\ sn' = detached(sn)
    /\ ui' = [ui EXCEPT ![s].kept = <<>>]
    /\ pc' = [pc EXCEPT ![s] = "rm_save"]
    /\ UNCHANGED <<known_tickets, is_running, users_file, status_file,
                   monitor_thread, admin_email, ct, lv, ops, checks, stopped, limit, seen>>

\* line 166
remove_subscriber_save(s) ==
    /\ pc[s] = "rm_save"
    /\ users_file' = subscribers
    /\ pc' = [pc EXCEPT ![s] = "rm_ret"]
    /\ UNCHANGED <<known_tickets, is_running, subscribers, status_file,
                   monitor_thread, admin_email, ct, sn, lv, ui, ops, checks, stopped, limit, seen>>

\* line 167
removed(list, original_count) == Len(list) < original_count

remove_subscriber_return(s) ==
    /\ pc[s] = "rm_ret"
    /\ handler_return(s, IF removed(subscribers, ui[s].original_count)
                         THEN "True" ELSE "False")
    /\ pc' = [pc EXCEPT ![s] = "idle"]
    /\ UNCHANGED <<known_tickets, is_running, subscribers, users_file, status_file,
                   monitor_thread, admin_email, ct, sn, lv, ops, checks, stopped, limit, seen>>

(* ------------------------------------- the other buttons of the sidebar *)
\* lines 526-527: "Initialize Baseline" empties the known set and checks
initialize_baseline(s) ==
    /\ handler_begin(s)
    /\ known_tickets' = {}
    /\ ui' = [ui EXCEPT ![s] = [NoHandler EXCEPT !.op = "ib"]]
    /\ pc' = [pc EXCEPT ![s] = "ct_fetch"]
    /\ UNCHANGED <<is_running, subscribers, users_file, status_file,
                   monitor_thread, admin_email, ct, sn, lv, checks, stopped, limit, seen>>

\* lines 528-532: the size of the known set is shown
initialize_baseline_count(s) ==
    /\ pc[s] = "ib_len"
    /\ handler_return(s, "None")
    /\ ct' = [ct EXCEPT ![s] = NoCheck]
    /\ pc' = [pc EXCEPT ![s] = "idle"]
    /\ UNCHANGED <<known_tickets, is_running, subscribers, users_file, status_file,
                   monitor_thread, admin_email, sn, lv, ops, checks, stopped, limit, seen>>

\* lines 540-547: "Test Email System"
test_email_system(s) ==
    /\ handler_begin(s)
    /\ \/ /\ subscribers # <<>>
          /\ send_email_notifications_begin(s, FALSE)
          /\ ui' = [ui EXCEPT ![s] = [NoHandler EXCEPT !.op = "test"]]
       \/ /\ subscribers = <<>>
          /\ ui' = [ui EXCEPT ![s] = [NoHandler EXCEPT !.op = "test", !.result = "None"]]
          /\ UNCHANGED <<pc, sn>>
    /\ UNCHANGED <<known_tickets, is_running, subscribers, users_file, status_file,
                   monitor_thread, admin_email, ct, lv, checks, stopped, limit, seen>>

(* ------------------------------------------------------- specification *)
\* the "Start Monitoring" and "Stop Monitoring" buttons
StartStopStep(s) ==
    \/ start_monitoring_check(s)
    \/ start_monitoring_spawn(s)
    \/ stop_monitoring(s)

\* the buttons that drive the monitor
ControlStep(s) ==
    \/ StartStopStep(s)
    \/ initialize_baseline(s)
    \/ initialize_baseline_count(s)

\* the subscription forms and the email test
SubscriberStep(s) ==
    \/ \E raw \in RawEmails : subscribe(s, raw)
    \/ add_subscriber_scan(s)
    \/ add_subscriber_append(s)
    \/ add_subscriber_save(s)
    \/ send_welcome_email_with_current_tickets(s)
    \/ \E raw \in RawEmails : unsubscribe(s, raw)
    \/ remove_subscriber_count(s)
    \/ remove_subscriber_filter(s)
    \/ remove_subscriber_assign(s)
    \/ remove_subscriber_save(s)
    \/ remove_subscriber_return(s)
    \/ test_email_system(s)

LoopStep(t) ==
    \/ monitor_loop_get_status(t)
    \/ monitor_loop_set_running(t)
    \/ monitor_loop_while(t)
    \/ monitor_loop_count(t)
    \/ send_admin_first_dibs_notification(t)
    \/ first_dibs_sleep(t)
    \/ monitor_loop_notify(t)
    \/ monitor_loop_update_status(t)
    \/ monitor_loop_sleep(t)
    \/ monitor_loop_except(t)
    \/ monitor_loop_finally(t)

CallStep(p) ==
    \/ check_tickets_fetch(p)
    \/ check_tickets_diff(p)
    \/ check_tickets_merge(p)
    \/ send_email_notifications_loop(p)

\* every thread of the process
Next ==
    \/ \E s \in Sessions : ControlStep(s)
    \/ \E s \in Sessions : SubscriberStep(s)
    \/ \E t \in Loops : LoopStep(t)
    \/ \E p \in Threads : CallStep(p)

Spec == Init /\ [][Next]_vars

\* the monitor and its buttons pressed one after the other, the subscriber
\* list left as loaded
NextMonitor ==
    \/ ControlStep(first_session)
    \/ \E t \in Loops : LoopStep(t)
    \/ \E p \in Loops \cup {first_session} : CallStep(p)

SpecMonitor == InitMonitor /\ [][NextMonitor]_vars

\* the monitor started and stopped, nothing else touching its state
NextLoop ==
    \/ StartStopStep(first_session)
    \/ \E t \in Loops : LoopStep(t)
    \/ \E t \in Loops : CallStep(t)

SpecLoop == InitMonitor /\ [][NextLoop]_vars

\* the subscription forms, no monitor thread started
NextSubscribers ==
    \/ \E s \in Sessions : SubscriberStep(s)
    \/ \E s \in Sessions : CallStep(s)

SpecSubscribers == InitSubscribers /\ [][NextSubscribers]_vars

\* one session filling the forms with any text, one call after the other
NextForms ==
    \/ \E raw \in FormInputs : subscribe(first_session, raw)
    \/ \E raw \in FormInputs : unsubscribe(first_session, raw)
    \/ SubscriberStep(first_session)
    \/ CallStep(first_session)

SpecForms == InitSubscribers /\ [][NextForms]_vars

\* the Start and Stop buttons pressed in any session
NextStartStop ==
    \/ \E s \in Sessions : StartStopStep(s)
    \/ \E t \in Loops : LoopStep(t)
    \/ \E t \in Loops : CallStep(t)

SpecStartStop == InitStartStop /\ [][NextStartStop]_vars

\* one session starting the monitor and using the forms while the loop runs
NextLoopAndForms ==
    \/ StartStopStep(first_session)
    \/ SubscriberStep(first_session)
    \/ \E t \in Loops : LoopStep(t)
    \/ \E p \in Loops \cup {first_session} : CallStep(p)

SpecLoopAndForms == InitStartStop /\ [][NextLoopAndForms]_vars

(* ---------------------------------------------------------------- claims *)
\* a step of thread p that leaves statement `at`
Leaves(p, at) == pc[p] = at /\ pc'[p] # at

\* the trimmed, lower-cased form of an address
Canonical(email) == strip(lower(email))

\* C1: a loop check that is neither a baseline nor on an empty page leaves
\* known_tickets equal to exactly the current id set.
C1_KnownEqualsCurrent ==
    [][\A t \in Loops : Leaves(t, "ct_merge") => known_tickets' = ct[t].cur]_vars

\* C2: a check made for add_subscriber's welcome message or by "Initialize
\* Baseline" never changes known_tickets.
C2_OneOffKeepsKnown ==
    [][\A s \in Sessions :
          (ui'[s].op \in {"add", "ib"} /\ <<pc[s], ui[s], ct[s]>> # <<pc'[s], ui'[s], ct'[s]>>)
              => known_tickets' = known_tickets]_vars

\* C3: an id listed by a successful loop check, not listed by the next one and
\* listed again by the one after is among the new listings that this third check
\* returns. Stated for a second check that lists something: after an empty page
\* the known set is reset and the third check is a baseline.
C3_ReappearedIsNew ==
    [][\A t \in Loops : \A x \in Ids :
          (pc[t] \in {"ct_diff", "ct_merge"} /\ pc'[t] = "L366"
             /\ seen[x] = "missed" /\ (\E y \in Ids : seen[y] = "listed")
             /\ x \in ct[t].cur)
              => x \in ct'[t].ret]_vars

\* C4: when known_tickets is empty and the loop's check sees a non-empty page,
\* the check returns nothing and sets known_tickets to the page's ids; the loop
\* then goes straight to the status update (or, on an exception, to the finally
\* clause): no admin message, no broadcast, and
\* tickets_found is not increased. A notification pass is only ever entered
\* after a check that returned new listings.
C4_BaselineIsSilent ==
    [][\A t \in Loops :
          /\ (Leaves(t, "ct_diff") /\ known_tickets = {})
                => /\ known_tickets' = ct[t].cur
                   /\ ct'[t].ret = {}
                   /\ ct'[t].branch = "baseline"
                   /\ pc'[t] = "L366"
          /\ (Leaves(t, "L366") /\ ct[t].branch = "baseline")
                => /\ pc'[t] \in {"L379", "L392"}
                   /\ lv'[t].tickets_found = lv[t].tickets_found
                   /\ sn'[t] = NoSend
          /\ pc'[t] \in {"fd_admin", "fd_sleep", "sen_excl", "sen_begin", "sen_loop"}
                => ct'[t].branch = "new"]_vars

C4_Witness ==
    \E t \in Loops : /\ pc[t] = "L379"
                     /\ ct[t].branch = "baseline"
                     /\ known_tickets = Ids
                     /\ lv[t].tickets_found = 0

\* C5: in a cycle with new listings, first dibs enabled and an admin address
\* configured, no broadcast send is made before or during the delay, the delay
\* begins only when the admin send attempt is over, and the broadcast begins only
\* when the whole delay has elapsed.
C5_AdminThenDelayThenOthers ==
    \A t \in Loops :
        (lv[t].first_dibs_enabled /\ admin_email # NoAdmin) =>
            /\ pc[t] # "sen_begin"
            /\ pc[t] \in {"fd_admin", "fd_sleep"} => sn[t] = NoSend
            /\ pc[t] = "fd_admin" => ~lv[t].admin_done /\ lv[t].waited = 0
            /\ pc[t] = "fd_sleep" => lv[t].admin_done
            /\ pc[t] \in {"sen_excl", "sen_loop"}
                  => lv[t].admin_done /\ lv[t].waited = FirstDibsDelay

C5_Witness ==
    \E t \in Loops : /\ pc[t] = "sen_loop"
                     /\ lv[t].first_dibs_enabled
                     /\ lv[t].admin_done
                     /\ lv[t].waited = FirstDibsDelay
                     /\ sn[t].idx >= 1

\* C6: send_email_notifications attempts one send per recipient, in list order,
\* whatever sends fail: during the loop the attempts are the first idx
\* recipients and every attempt is counted as a success or a failure; the counts
\* returned add up to the number of recipients, all of whom were attempted.
C6_EveryRecipientAttempted ==
    \A p \in Threads :
        /\ pc[p] = "sen_loop" =>
              /\ sn[p].idx <= Len(sn[p].list)
              /\ sn[p].attempts = SubSeq(sn[p].list, 1, sn[p].idx)
              /\ sn[p].successful_sends + sn[p].failed_sends = sn[p].idx
        /\ sn[p].returned = "counts" =>
              /\ sn[p].attempts = sn[p].list
              /\ sn[p].successful_sends + sn[p].failed_sends = Len(sn[p].list)

C6_Witness ==
    \E p \in Threads : /\ sn[p].returned = "counts"
                       /\ Len(sn[p].list) >= 2
                       /\ sn[p].failed_sends = Len(sn[p].list)

\* C7: two monitor_loop threads are never alive together.
C7_OneLoopAlive == Cardinality({t \in Loops : is_alive(t)}) <= 1

\* C8: once stop_monitoring has run after a successful start, the loop begins no
\* further cycle.
C8_NoCycleAfterStop ==
    [][\A t \in Loops : ~(stopped /\ pc[t] = "L362" /\ pc'[t] = "ct_fetch")]_vars

\* C9: add_subscriber with an address whose trimmed, lower-cased form is that of
\* a subscriber returns False and changes neither the list nor the file; no
\* check is made and no email sent.
C9_DuplicateRejected ==
    [][\A s \in Sessions :
          (Leaves(s, "add_scan")
             /\ Canonical(ui[s].raw) \in {Canonical(e) : e \in Emails(subscribers)})
              => /\ subscribers' = subscribers
                 /\ users_file' = users_file
                 /\ pc'[s] = "idle"
                 /\ ui'[s].result = "False"
                 /\ ~ui'[s].welcome_sent
                 /\ ct'[s] = NoCheck
                 /\ known_tickets' = known_tickets]_vars

C9_Witness ==
    \E s \in Sessions : /\ pc[s] = "idle"
                        /\ ui[s].op = "add"
                        /\ ui[s].raw = RawFooUpper
                        /\ ui[s].result = "False"
                        /\ subscribers = <<normalize(RawFoo), AdminAddress>>
                        /\ users_file = subscribers

\* C10: no two records of the subscriber list have the same normalized email.
C10_UniqueEmails ==
    \A i, j \in 1..Len(subscribers) :
        i # j => Canonical(subscribers[i]) # Canonical(subscribers[j])

\* an "@" with something before it and something after it, the least that a
\* local@domain.tld address has
HasLocalAndDomain(email) == \E i \in 2..(Len(email) - 1) : email[i] = "@"

\* C11: add_subscriber with an address that is not of the form local@domain.tld
\* returns a failure at once: nothing is appended or saved and no check is made.
C11_InvalidFormatRejected ==
    [][\A s \in Sessions :
          (Leaves(s, "add_scan") /\ ~HasLocalAndDomain(Canonical(ui[s].raw)))
              => /\ pc'[s] = "idle"
                 /\ ui'[s].result = "False"
                 /\ subscribers' = subscribers
                 /\ users_file' = users_file
                 /\ ct'[s] = NoCheck]_vars

\* C12: a loop cycle whose fetch fails, by a request error or by a page from
\* which the listing container cannot be obtained, leaves known_tickets as it
\* was, returns nothing and goes to the status update with no notification.
C12_FailedFetchKeepsKnown ==
    [][\A t \in Loops :
          /\ (Leaves(t, "ct_fetch") /\ ct'[t].branch \in {"error", "nocontainer"})
                => /\ known_tickets' = known_tickets
                   /\ ct'[t].ret = {}
                   /\ pc'[t] = "L366"
          /\ (Leaves(t, "L366") /\ ct[t].branch \in {"error", "nocontainer"})
                => /\ pc'[t] \in {"L379", "L392"}
                   /\ sn'[t] = NoSend]_vars

\* C13: the loop's check and a check made for a session are never both between
\* the entry of check_tickets and the answer to its request.
C13_OneFetchAtATime ==
    \A t \in Loops : \A s \in Sessions : ~(pc[t] = "ct_fetch" /\ pc[s] = "ct_fetch")

\* C14: when add_subscriber(a) and remove_subscriber(b) with a # b, the only two
\* calls made, have both returned, whatever their interleaving, the list holds a
\* and not b and the file is equal to the list.
C14_AddAndRemoveBothTakeEffect ==
    \A s, r \in Sessions :
        (/\ ops = 2
         /\ pc[s] = "idle" /\ ui[s].op = "add" /\ ui[s].result = "True"
         /\ pc[r] = "idle" /\ ui[r].op = "remove" /\ ui[r].result # "none"
         /\ Canonical(ui[s].raw) # Canonical(ui[r].raw))
            => /\ Canonical(ui[s].raw) \in Emails(subscribers)
               /\ Canonical(ui[r].raw) \notin Emails(subscribers)
               /\ users_file = subscribers

\* C15: an exception raised in the cycle body takes the thread to the finally
\* clause with its counters as they were; from there the thread begins no cycle
\* and ends, writing a status with is_running false and those counters. A thread
\* ends in no other way.
C15_ExceptionEndsLoopWithFinalStatus ==
    [][\A t \in Loops :
          /\ (pc[t] \in RaisingStatements /\ pc'[t] \in {"L392", "dead"})
                => /\ pc'[t] = "L392"
                   /\ lv'[t].total_checks = lv[t].total_checks
                   /\ lv'[t].tickets_found = lv[t].tickets_found
                   /\ status_file' = status_file
          /\ pc[t] = "L392" => pc'[t] \in {"L392", "dead"}
          /\ (pc[t] # "dead" /\ pc'[t] = "dead")
                => /\ pc[t] = "L392"
                   /\ status_file' = [present |-> TRUE, is_running |-> FALSE,
                                      total_checks |-> lv[t].total_checks,
                                      tickets_found |-> lv[t].tickets_found,
                                      subscriber_count |-> Len(subscribers)]]_vars

\* the only loop thread ever started has ended after a cycle although no stop was
\* asked and cycles were left: it ended by an exception, and the file says so
C15_Witness ==
    \E t \in Loops :
        /\ pc[t] = "dead"
        /\ \A u \in Loops \ {t} : pc[u] = "unborn"
        /\ is_running /\ ~stopped
        /\ checks < limit.checks
        /\ status_file.present /\ ~status_file.is_running
        /\ status_file.total_checks >= 1
        /\ status_file.tickets_found >= 1

\* C16: remove_subscriber returns True exactly when the list held a record with
\* the normalized email when the call began (ui[s].before is the list at that
\* moment): an address that was not listed gives False, hence also a second
\* removal of the same address.
C16_RemoveReturnsWhetherListed ==
    [][\A s \in Sessions :
          Leaves(s, "rm_ret") =>
              (ui'[s].result = "True"
                  <=> Canonical(ui[s].raw) \in Emails(ui[s].before))]_vars

\* C17: every add_subscriber call that returns True has sent one message to the
\* new subscriber.
C17_WelcomeAlwaysSent ==
    \A s \in Sessions :
        (pc[s] = "idle" /\ ui[s].op = "add" /\ ui[s].result = "True")
            => ui[s].welcome_sent

\* C18: from one persisted status record to the next, total_checks and
\* tickets_found never decrease.
C18_CountersNeverDecrease ==
    [][/\ status_file'.total_checks >= status_file.total_checks
       /\ status_file'.tickets_found >= status_file.tickets_found]_vars

\* C19: a successful loop check that sees the page the previous successful loop
\* check saw, with nothing else writing known_tickets in between, returns no new
\* listing and leaves known_tickets as it was.
C19_SamePageChangesNothing ==
    [][\A t \in Loops :
          (pc[t] \in {"ct_diff", "ct_merge"} /\ pc'[t] = "L366"
             /\ ct[t].cur = {x \in Ids : seen[x] = "listed"})
              => /\ ct'[t].ret = {}
                 /\ known_tickets' = known_tickets]_vars

\* C20: a successful check that finds no listing empties known_tickets and
\* returns nothing; the next successful loop check that finds listings, some of
\* them seen before the reset, is a baseline: it returns nothing, stores the
\* page's ids, and the cycle sends nothing and counts no ticket. Stated for loop
\* checks with no other caller of check_tickets in between.
C20_EmptyPageThenBaseline ==
    [][\A t \in Loops :
          /\ (Leaves(t, "ct_fetch") /\ ct'[t].branch = "empty")
                => /\ known_tickets' = {}
                   /\ ct'[t].ret = {}
          /\ (pc[t] \in {"ct_diff", "ct_merge"} /\ pc'[t] = "L366"
                 /\ (\E x \in Ids : seen[x] = "missed")
                 /\ (\A y \in Ids : seen[y] # "listed"))
                => /\ ct'[t].ret = {}
                   /\ ct'[t].branch = "baseline"
                   /\ known_tickets' = ct[t].cur
          /\ (Leaves(t, "L366") /\ ct[t].ret = {})
                => /\ pc'[t] \in {"L379", "L392"}
                   /\ lv'[t].tickets_found = lv[t].tickets_found]_vars

\* the third check of a loop, after a page that listed x and a page without
\* listings, has x on its page again and finds known_tickets empty
C20_Witness ==
    \E t \in Loops :
        /\ pc[t] = "ct_diff"
        /\ lv[t].total_checks = 2
        /\ known_tickets = {}
        /\ \E x \in ct[t].cur : seen[x] = "missed"
        /\ \A y \in Ids : seen[y] # "listed"

\* the records of the list whose address is not the admin's
Others(list, admin) == SelectSeq(list, LAMBDA e : lower(e) # lower(admin))

\* C21: a cycle with new listings takes the first-dibs path exactly when first
\* dibs is enabled and an admin address is configured. On that path the admin
\* message has been sent when the broadcast begins, the broadcast is addressed to
\* the subscribers other than the admin and makes one attempt per recipient, none
\* to the admin. On the other path no admin message is sent and the broadcast is
\* addressed to the whole list, one attempt per record.
C21_AdminOnlyPrivilegedMessage ==
    [][\A t \in Loops :
          LET fd == lv[t].first_dibs_enabled /\ admin_email # NoAdmin IN
          /\ (Leaves(t, "L366") /\ ct[t].ret # {})
                => pc'[t] \in (IF fd THEN {"fd_admin", "L392"} ELSE {"sen_begin", "L392"})
          /\ (Leaves(t, "sen_excl") /\ pc'[t] # "L392")
                => /\ fd /\ lv[t].admin_done
                   /\ sn'[t].list = Others(subscribers, admin_email)
          /\ (Leaves(t, "sen_begin") /\ pc'[t] # "L392")
                => /\ ~fd /\ ~lv[t].admin_done
                   /\ sn'[t].list = subscribers
          /\ (pc[t] = "sen_loop" /\ pc'[t] = "L379")
                => /\ sn'[t].attempts = sn[t].list
                   /\ fd => \A i \in 1..Len(sn'[t].attempts) :
                                lower(sn'[t].attempts[i]) # lower(admin_email)]_vars

\* a first-dibs cycle is over: the admin message was sent and the broadcast went
\* to the one subscriber who is not the admin
C21_Witness ==
    \E t \in Loops :
        /\ pc[t] = "L379"
        /\ ct[t].branch = "new"
        /\ lv[t].first_dibs_enabled /\ lv[t].admin_done
        /\ subscribers = <<normalize(RawFoo), AdminAddress>>
        /\ sn[t].returned = "counts"
        /\ sn[t].attempts = <<normalize(RawFoo)>>

\* the statements of a cycle, from the loop condition to the interval
CycleStatements ==
    {"L362", "ct_fetch", "ct_diff", "ct_merge", "L366", "fd_admin", "fd_sleep",
     "sen_excl", "sen_begin", "sen_loop", "L379", "L386"}

\* C22: in a cycle the counters change at one statement only, the one after the
\* check: there total_checks grows by one whatever the check's outcome and
\* tickets_found by the number of listings the check returned, none for a failed
\* fetch, an empty page, a baseline or an unchanged page. The status written at
\* the end of the cycle holds these counters with is_running true.
C22_CountersPerCycle ==
    [][\A t \in Loops :
          /\ (Leaves(t, "L366") /\ pc'[t] # "L392")
                => /\ lv'[t].total_checks = lv[t].total_checks + 1
                   /\ lv'[t].tickets_found
                         = lv[t].tickets_found + Cardinality(ct[t].ret)
                   /\ ct[t].branch # "new" => ct[t].ret = {}
          /\ (pc[t] \in CycleStatements /\ ~(Leaves(t, "L366") /\ pc'[t] # "L392"))
                => /\ lv'[t].total_checks = lv[t].total_checks
                   /\ lv'[t].tickets_found = lv[t].tickets_found
          /\ (Leaves(t, "L379") /\ pc'[t] # "L392")
                => status_file' = [present |-> TRUE, is_running |-> TRUE,
                                   total_checks |-> lv[t].total_checks,
                                   tickets_found |-> lv[t].tickets_found,
                                   subscriber_count |-> Len(subscribers)]]_vars

\* the third cycle of a loop had a failed fetch after a baseline and a cycle with
\* one new listing: it is counted as a check and adds no ticket
C22_Witness ==
    \E t \in Loops :
        /\ pc[t] = "L379"
        /\ ct[t].branch = "error"
        /\ lv[t].total_checks = 3 /\ lv[t].tickets_found = 1
        /\ status_file.total_checks = 2 /\ status_file.tickets_found = 1
        /\ status_file.is_running

\* C23: while a loop thread is alive and the list holds a subscriber besides the
\* one being added, an id enters a non-empty known_tickets only by the step of a
\* loop's check that returns it to the loop as new, for the broadcast.
C23_NewIdsGoThroughTheLoop ==
    [][\A x \in Ids :
          (/\ x \notin known_tickets /\ x \in known_tickets'
           /\ known_tickets # {}
           /\ \E t \in Loops : is_alive(t)
           /\ Len(subscribers) >= 2)
              => \E t \in Loops : /\ pc[t] = "ct_merge" /\ pc'[t] = "L366"
                                  /\ x \in ct'[t].ret]_vars

\* C24: when the last button pressed was a Start that came after a Stop and
\* returned False, a loop thread is alive.
C24_RejectedStartMeansLoopRuns ==
    \A s \in Sessions :
        (pc[s] = "idle" /\ ui[s].op = "start" /\ ui[s].result = "False" /\ stopped)
            => \E t \in Loops : is_alive(t)

\* C25: the steps of add_subscriber and remove_subscriber change the list only by
\* appending the normalized address at its end (add) or by dropping the records
\* with the normalized address, the others kept in order (remove), and change
\* neither known_tickets nor the persisted status. Stated for calls that do not
\* overlap.
C25_OnlyTheTargetedRecord ==
    [][\A s \in Sessions :
          (ui'[s].op \in {"add", "remove"}
             /\ <<pc[s], ui[s], ct[s]>> # <<pc'[s], ui'[s], ct'[s]>>)
              => /\ subscribers' =
                       IF Leaves(s, "add_append")
                       THEN Append(subscribers, Canonical(ui[s].raw))
                       ELSE IF Leaves(s, "rm_assign")
                       THEN SelectSeq(subscribers,
                                      LAMBDA e : e # Canonical(ui[s].raw))
                       ELSE subscribers
                 /\ known_tickets' = known_tickets
                 /\ status_file' = status_file]_vars

\* the list part of C25 alone
C25_ListFrame ==
    [][\A s \in Sessions :
          (ui'[s].op \in {"add", "remove"}
             /\ <<pc[s], ui[s], ct[s]>> # <<pc'[s], ui'[s], ct'[s]>>)
              => subscribers' =
                       IF Leaves(s, "add_append")
                       THEN Append(subscribers, Canonical(ui[s].raw))
                       ELSE IF Leaves(s, "rm_assign")
                       THEN SelectSeq(subscribers,
                                      LAMBDA e : e # Canonical(ui[s].raw))
                       ELSE subscribers]_vars

====
